---- MODULE Spec2Model ----
(***************************************************************************)
(* A model of src/app.py: the reply normaliser clean_json_response, the    *)
(* solve handler (main -> detect_and_solve_sudoku -> display_grids) and    *)
(* the grid renderer format_grid.                                          *)
(*                                                                         *)
(* Texts are sequences of one-character strings.  A JSON value (what       *)
(* json.loads returns) is a tagged record:                                 *)
(*   [t |-> "int", n |-> 5]        [t |-> "str", s |-> <<"a">>]           *)
(*   [t |-> "arr", a |-> <<v, ..>>] [t |-> "obj", o |-> <<[k, v], ..>>]    *)
(*   [t |-> "bool", b |-> TRUE]    [t |-> "null"]   (Python's None)        *)
(***************************************************************************)
EXTENDS Integers, Sequences, FiniteSets, TLC

VARIABLES
    pc,             \* which step the modelled run is at
    response_text,  \* app.py:74  the raw reply text of the remote model
    json_text,      \* app.py:75  the cleaned text
    parsed,         \* app.py:79  outcome of json.loads(json_text)
    embed,          \* the pieces a reply was composed of (prose / fence / object)
    outcome,        \* what the remote call of the run did
    result,         \* app.py:141 the value detect_and_solve_sudoku returned
    ui,             \* the Streamlit elements the run emitted
    raised,         \* the exception that escaped the run, or "none"
    requests,       \* number of client.chat.completions.create calls of the run
    grid,           \* the argument of format_grid
    formatted_rows  \* app.py:100 the lines format_grid returned

vars == <<pc, response_text, json_text, parsed, embed, outcome, result, ui,
          raised, requests, grid, formatted_rows>>

-----------------------------------------------------------------------------
(* Bounds of the model.                                                    *)

\* longest text, in segments, of the free family of reply texts
MaxSegs == 4
\* longest fence material, in segments, put between a brace pair
MaxFence == 8
\* longest leading / trailing prose, in segments, around an embedded object
MaxProse == 2
\* largest coefficient of the generated 9x9 grids
MaxCoef == 4

-----------------------------------------------------------------------------
(* Characters and texts.                                                   *)

None == [t |-> "null"]

Max(S) == CHOOSE x \in S : \A y \in S : y <= x
Min(S) == CHOOSE x \in S : \A y \in S : x <= y

\* Python's \s on the characters the model's texts are made of.
IsSpace(c) == c \in {" ", "\t", "\n", "\r", "\f"}

\* TRUE iff pattern pat occurs in s starting at (1-based) index i.
MatchAt(s, i, pat) ==
    /\ i + Len(pat) - 1 <= Len(s)
    /\ \A k \in 1..Len(pat) : s[i + k - 1] = pat[k]

RECURSIVE SkipSpace(_, _)
\* \s* from index i, greedy: the index of the first non-space at or after i.
SkipSpace(s, i) ==
    IF i > Len(s) \/ ~IsSpace(s[i]) THEN i ELSE SkipSpace(s, i + 1)

\* The backquote character (U+0060).  The TLA+ lexer admits no backquote
\* inside a string, so the character is written as this one-element token.
BQ == "BACKQUOTE"

\* the fence marker: three backquotes
Ticks == <<BQ, BQ, BQ>>
\* the tagged fence marker: three backquotes and the letters json
JsonFence == <<BQ, BQ, BQ, "j", "s", "o", "n">>

\* the index just after the match of <JsonFence>\s*|\s*<Ticks> that starts
\* at index i (the first alternative tried first, \s* greedy), 0 if none
FenceMatchEnd(s, i) ==
    IF MatchAt(s, i, JsonFence) THEN SkipSpace(s, i + Len(JsonFence))
    ELSE IF MatchAt(s, SkipSpace(s, i), Ticks) THEN SkipSpace(s, i) + Len(Ticks)
    ELSE 0

RECURSIVE FenceScan(_, _)
\* re.sub(r'<JsonFence>\s*|\s*<Ticks>', '', s) from index i on: one
\* left-to-right pass; the leftmost match at or after i is removed and the
\* scan resumes just after it.
FenceScan(s, i) ==
    IF \A m \in i..Len(s) : FenceMatchEnd(s, m) = 0
    THEN SubSeq(s, i, Len(s))
    ELSE LET m == CHOOSE m \in i..Len(s) :
                      /\ FenceMatchEnd(s, m) # 0
                      /\ \A y \in i..(m - 1) : FenceMatchEnd(s, y) = 0
         IN  SubSeq(s, i, m - 1) \o FenceScan(s, FenceMatchEnd(s, m))

StripFirstFenceOnly(s) ==
    IF \A m \in 1..Len(s) : FenceMatchEnd(s, m) = 0 THEN s
    ELSE LET m == CHOOSE m \in 1..Len(s) :
                      /\ FenceMatchEnd(s, m) # 0
                      /\ \A y \in 1..(m - 1) : FenceMatchEnd(s, y) = 0
         IN  SubSeq(s, 1, m - 1) \o SubSeq(s, FenceMatchEnd(s, m), Len(s))

\* app.py:29
StripFences(s) == FenceScan(s, 1)

HeadStripToLastOpen(s) ==
    LET opens == {i \in 1..Len(s) : s[i] = "{"}
    IN  IF opens = {} THEN <<>> ELSE SubSeq(s, Max(opens), Len(s))

\* app.py:31
\* re.sub(r'^[^{]*', '', s): ^ matches at the start of the text only; the
\* greedy run of non-'{' characters found there is removed.
HeadStrip(s) ==
    LET n == Len(s)
        k == CHOOSE m \in 0..n :
                /\ \A j \in 1..m : s[j] # "{"
                /\ (m = n \/ s[m + 1] = "{")
    IN  SubSeq(s, k + 1, n)

\* $ (no MULTILINE) holds before index q: at the end of the text, or just
\* before a newline that is the text's last character.
DollarAt(s, q) ==
    \/ q = Len(s) + 1
    \/ q = Len(s) /\ s[q] = "\n"

\* the index just after the longest non-empty match of [^}]*$ that starts
\* at index p, 0 if none: the run p..q-1 holds no '}' and $ holds before q
TailMatchEnd(s, p) ==
    LET ends == {q \in {Len(s), Len(s) + 1} :
                    /\ q > p
                    /\ DollarAt(s, q)
                    /\ \A d \in 1..(q - p) : s[q - d] # "}"}
    IN  IF ends = {} THEN 0 ELSE Max(ends)

RECURSIVE TailScan(_, _)
\* re.sub(r'[^}]*$', '', s) from index p on: the leftmost non-empty match at
\* or after p is removed and the scan resumes just after it (an empty
\* match removes nothing).
TailScan(s, p) ==
    IF \A m \in p..Len(s) : TailMatchEnd(s, m) = 0
    THEN SubSeq(s, p, Len(s))
    ELSE LET m == CHOOSE m \in p..Len(s) :
                      /\ TailMatchEnd(s, m) # 0
                      /\ \A y \in p..(m - 1) : TailMatchEnd(s, y) = 0
         IN  SubSeq(s, p, m - 1) \o TailScan(s, TailMatchEnd(s, m))

TailStripAtFirstClose(s) ==
    LET closes == {i \in 1..Len(s) : s[i] = "}"}
    IN  IF closes = {} THEN <<>> ELSE SubSeq(s, 1, Min(closes))

\* app.py:32
TailStrip(s) == TailScan(s, 1)

CleanWithoutHeadStrip(s) == TailStrip(StripFences(s))

\* app.py:26-33
clean_json_response(s) == TailStrip(HeadStrip(StripFences(s)))

-----------------------------------------------------------------------------
(* json.loads (app.py:79), on the characters the model's texts are made    *)
(* of: objects, arrays, strings without escapes, integers, decimal         *)
(* fractions, true/false/null, JSON whitespace.  No text of the model      *)
(* holds a backslash, an exponent or NaN/Infinity.                         *)

JInt(n) == [t |-> "int", n |-> n]
JStr(cs) == [t |-> "str", s |-> cs]
JFloat(cs) == [t |-> "float", s |-> cs]
JArr(xs) == [t |-> "arr", a |-> xs]
JObj(kvs) == [t |-> "obj", o |-> kvs]
JBool(b) == [t |-> "bool", b |-> b]

Fail == [ok |-> FALSE, v |-> None, i |-> 0]
Ok(v, i) == [ok |-> TRUE, v |-> v, i |-> i]

\* the character at index i, "" past the end
CharAt(s, i) == IF i >= 1 /\ i <= Len(s) THEN s[i] ELSE ""

DigitChars == <<"0", "1", "2", "3", "4", "5", "6", "7", "8", "9">>
IsDigit(c) == \E d \in 1..10 : DigitChars[d] = c
DigitVal(c) == (CHOOSE d \in 1..10 : DigitChars[d] = c) - 1

RECURSIVE SkipWs(_, _)
\* json's WHITESPACE: [ \t\n\r]*
SkipWs(s, i) ==
    IF CharAt(s, i) \in {" ", "\t", "\n", "\r"} THEN SkipWs(s, i + 1) ELSE i

RECURSIVE DigitsEnd(_, _)
DigitsEnd(s, i) == IF IsDigit(CharAt(s, i)) THEN DigitsEnd(s, i + 1) ELSE i

RECURSIVE DigitsValue(_, _, _, _)
DigitsValue(s, i, j, acc) ==
    IF i >= j THEN acc ELSE DigitsValue(s, i + 1, j, 10 * acc + DigitVal(s[i]))

\* NUMBER_RE = (-?(?:0|[1-9][0-9]*))(\.[0-9]+)?  at index i
ParseNumber(s, i) ==
    LET neg == CharAt(s, i) = "-"
        d0 == IF neg THEN i + 1 ELSE i
        d1 == IF CharAt(s, d0) = "0" THEN d0 + 1 ELSE DigitsEnd(s, d0)
        f1 == IF CharAt(s, d1) = "." /\ IsDigit(CharAt(s, d1 + 1))
              THEN DigitsEnd(s, d1 + 1) ELSE d1
        mag == DigitsValue(s, d0, d1, 0)
    IN  IF d1 = d0 THEN Fail
        ELSE IF f1 > d1 THEN Ok(JFloat(SubSeq(s, i, f1 - 1)), f1)
        ELSE Ok(JInt(IF neg THEN 0 - mag ELSE mag), d1)

RECURSIVE StringEnd(_, _)
\* index of the quote closing a string whose body starts at i; 0 when the
\* text ends first or the body holds a control character or a backslash
StringEnd(s, i) ==
    LET c == CharAt(s, i)
    IN  IF c = "\"" THEN i
        ELSE IF c \in {"", "\n", "\t", "\r", "\f", "\\"} THEN 0
        ELSE StringEnd(s, i + 1)

ParseString(s, i) ==
    LET e == StringEnd(s, i + 1)
    IN  IF CharAt(s, i) # "\"" \/ e = 0 THEN Fail
        ELSE Ok(JStr(SubSeq(s, i + 1, e - 1)), e + 1)

\* dict[key] = value: a repeated key keeps its place and takes the new value
DictPut(kvs, k, v) ==
    IF \E m \in 1..Len(kvs) : kvs[m].k = k
    THEN [m \in 1..Len(kvs) |-> IF kvs[m].k = k THEN [k |-> k, v |-> v] ELSE kvs[m]]
    ELSE Append(kvs, [k |-> k, v |-> v])

LitNull == <<"n", "u", "l", "l">>
LitTrue == <<"t", "r", "u", "e">>
LitFalse == <<"f", "a", "l", "s", "e">>

RECURSIVE ParseValue(_, _)
RECURSIVE ParseElems(_, _, _)
RECURSIVE ParseMembers(_, _, _)

\* elements of an array, the first starting at i
ParseElems(s, i, acc) ==
    LET r == ParseValue(s, i)
        k == SkipWs(s, r.i)
    IN  IF ~r.ok THEN Fail
        ELSE IF CharAt(s, k) = "," THEN ParseElems(s, SkipWs(s, k + 1), Append(acc, r.v))
        ELSE IF CharAt(s, k) = "]" THEN Ok(JArr(Append(acc, r.v)), k + 1)
        ELSE Fail

\* members of an object, the first key's quote at i
ParseMembers(s, i, acc) ==
    LET key == ParseString(s, i)
        c == SkipWs(s, key.i)
        r == ParseValue(s, SkipWs(s, c + 1))
        k == SkipWs(s, r.i)
        put == DictPut(acc, key.v.s, r.v)
    IN  IF ~key.ok \/ CharAt(s, c) # ":" THEN Fail
        ELSE IF ~r.ok THEN Fail
        ELSE IF CharAt(s, k) = "," THEN ParseMembers(s, SkipWs(s, k + 1), put)
        ELSE IF CharAt(s, k) = "}" THEN Ok(JObj(put), k + 1)
        ELSE Fail

\* one JSON value starting exactly at i
ParseValue(s, i) ==
    LET c == CharAt(s, i)
    IN  IF c = "{"
        THEN IF CharAt(s, SkipWs(s, i + 1)) = "}"
             THEN Ok(JObj(<<>>), SkipWs(s, i + 1) + 1)
             ELSE ParseMembers(s, SkipWs(s, i + 1), <<>>)
        ELSE IF c = "["
        THEN IF CharAt(s, SkipWs(s, i + 1)) = "]"
             THEN Ok(JArr(<<>>), SkipWs(s, i + 1) + 1)
             ELSE ParseElems(s, SkipWs(s, i + 1), <<>>)
        ELSE IF c = "\"" THEN ParseString(s, i)
        ELSE IF c = "-" \/ IsDigit(c) THEN ParseNumber(s, i)
        ELSE IF MatchAt(s, i, LitNull) THEN Ok(None, i + 4)
        ELSE IF MatchAt(s, i, LitTrue) THEN Ok(JBool(TRUE), i + 4)
        ELSE IF MatchAt(s, i, LitFalse) THEN Ok(JBool(FALSE), i + 5)
        ELSE Fail

\* json.loads(s): one value between optional whitespace, nothing after it.
\* ok = FALSE stands for json.JSONDecodeError.
json_loads(s) ==
    LET r == ParseValue(s, SkipWs(s, 1))
    IN  IF r.ok /\ SkipWs(s, r.i) = Len(s) + 1
        THEN [ok |-> TRUE, v |-> r.v]
        ELSE [ok |-> FALSE, v |-> None]

-----------------------------------------------------------------------------
(* Reply texts the specifications draw their inputs from.                 *)

RECURSIVE Concat(_)
\* the concatenation of a sequence of texts
Concat(ts) == IF ts = <<>> THEN <<>> ELSE Head(ts) \o Concat(Tail(ts))

\* all sequences of at most n elements of S
SeqsUpTo(S, n) == UNION {[1..m -> S] : m \in 0..n}

\* pieces of free reply texts: braces, a backquote, blanks, the json tag
\* and a character that is none of these
Segs == {<<"{">>, <<"}">>, <<BQ>>, <<" ">>, <<"\n">>, <<"j", "s", "o", "n">>, <<"1">>}

\* pieces of fence material
FenceSegs == {<<BQ>>, <<" ">>, <<"j", "s", "o", "n">>}

FreeTexts == {Concat(ts) : ts \in SeqsUpTo(Segs, MaxSegs)}

BracedTexts == {<<"{">> \o Concat(ts) \o <<"}">> : ts \in SeqsUpTo(FenceSegs, MaxFence)}

NoEmbed == [lead |-> <<>>, open |-> <<>>, obj |-> <<>>, close |-> <<>>, trail |-> <<>>]

NoParse == [ok |-> FALSE, v |-> None]

\* the state of the variables an operation has not touched yet
Idle ==
    /\ json_text = <<>>
    /\ parsed = NoParse
    /\ outcome = "none"
    /\ result = None
    /\ ui = <<>>
    /\ raised = "none"
    /\ requests = 0
    /\ grid = None
    /\ formatted_rows = <<>>

-----------------------------------------------------------------------------
(* SpecClean: clean_json_response and the json.loads that follows it       *)
(* (app.py:75-79) applied to a reply text.                                 *)

InitClean ==
    /\ pc = "reply"
    /\ response_text \in FreeTexts \cup BracedTexts
    /\ embed = NoEmbed
    /\ Idle

\* app.py:75 and app.py:79
CleanReply ==
    /\ pc = "reply"
    /\ pc' = "cleaned"
    /\ json_text' = clean_json_response(response_text)
    /\ parsed' = [ok |-> json_loads(json_text').ok, v |-> json_loads(json_text').v]
    /\ UNCHANGED <<response_text, embed, outcome, result, ui, raised, requests,
                   grid, formatted_rows>>

NextClean == CleanReply

SpecClean == InitClean /\ [][NextClean]_vars

\* indices of character c in text s
IndicesOf(s, c) == {i \in 1..Len(s) : s[i] = c}

\* TRUE iff text s holds three consecutive backquotes
HasTicks(s) == \E i \in 1..Len(s) : MatchAt(s, i, Ticks)

\* C8: with s the text after fence stripping, the cleaned text is the
\* substring of s from its first '{' through its last '}' when a '}' occurs
\* after that first '{', and the empty text in every other case.
C8_BraceTrimming ==
    pc = "cleaned" =>
        LET s == StripFences(response_text)
            opens == IndicesOf(s, "{")
            closes == IndicesOf(s, "}")
        IN  IF opens # {} /\ closes # {} /\ Max(closes) > Min(opens)
            THEN json_text = [i \in 1..(Max(closes) - Min(opens) + 1) |-> s[Min(opens) + i - 1]]
            ELSE json_text = <<>>

\* C8 witness: text was discarded on both sides of a kept brace pair
C8_Witness ==
    /\ pc = "cleaned"
    /\ Len(json_text) >= 2
    /\ Head(StripFences(response_text)) # "{"
    /\ StripFences(response_text)[Len(StripFences(response_text))] # "}"
    /\ Head(json_text) = "{"
    /\ json_text[Len(json_text)] = "}"

\* the maximal backquote runs of s all have a length that is a multiple of 3
RECURSIVE TickRunsInThrees(_, _, _)
TickRunsInThrees(s, i, run) ==
    IF i > Len(s) THEN run % 3 = 0
    ELSE IF s[i] = BQ THEN TickRunsInThrees(s, i + 1, run + 1)
    ELSE run % 3 = 0 /\ TickRunsInThrees(s, i + 1, 0)

\* C9 as stated: the cleaned text never holds three consecutive backquotes
C9_NoFenceInOutput ==
    pc = "cleaned" => ~HasTicks(json_text)

\* C9 (amended): when every backquote run of the reply has a length that is
\* a multiple of three, the cleaned text holds no backquote at all, tagged
\* or untagged, wherever the markers stood and whatever blanks surrounded
\* them.
C9_FencesStripped ==
    (pc = "cleaned" /\ TickRunsInThrees(response_text, 1, 0)) =>
        IndicesOf(json_text, BQ) = {}

\* C9 witness: a tagged and an untagged marker with blanks around them were
\* removed from inside a brace pair
C9_Witness ==
    /\ pc = "cleaned"
    /\ TickRunsInThrees(response_text, 1, 0)
    /\ \E i \in 1..Len(response_text) : MatchAt(response_text, i, JsonFence \o <<" ">>)
    /\ \E i \in 1..Len(response_text) : MatchAt(response_text, i, <<" ">> \o Ticks \o <<"}">>)
    /\ json_text = <<"{", "}">>

\* C10: the cleaned text is empty or runs from a '{' to a '}', and a cleaned
\* text that parses parses to a JSON object.
C10_ObjectOrNothing ==
    pc = "cleaned" =>
        /\ json_text = <<>> \/ (Head(json_text) = "{" /\ json_text[Len(json_text)] = "}")
        /\ parsed.ok => parsed.v.t = "obj"

\* C10 witness: a reply with text around the braces whose cleaned text parsed
C10_Witness ==
    /\ pc = "cleaned"
    /\ parsed.ok
    /\ json_text # response_text
    /\ Head(response_text) = "1"

-----------------------------------------------------------------------------
(* SpecProse: a well-formed JSON object embedded in prose, with or without *)
(* a markdown fence around it, cleaned and parsed (app.py:75-79).          *)

Q == "\""

\* pieces of leading and trailing prose
ProseSegs == {<<"o", "k">>, <<"{">>, <<"}">>, <<BQ>>}

Proses == {Concat(ts) : ts \in SeqsUpTo(ProseSegs, MaxProse)}

\* the fence put around the object: none, tagged, untagged
Fences ==
    { [open |-> <<>>, close |-> <<>>],
      [open |-> JsonFence \o <<"\n">>, close |-> <<"\n">> \o Ticks],
      [open |-> Ticks \o <<"\n">>, close |-> <<" ", "\n">> \o Ticks \o <<"\n">>] }

\* {}   {"a":1}   {"a": {"b": [1, "}{"]}}   {"a":"<three backquotes>"}
EmbeddedObjects ==
    { <<"{", "}">>,
      <<"{", Q, "a", Q, ":", "1", "}">>,
      <<"{", Q, "a", Q, ":", " ", "{", Q, "b", Q, ":", " ", "[", "1", ",", " ",
        Q, "}", "{", Q, "]", "}", "}">>,
      <<"{", Q, "a", Q, ":", Q, BQ, BQ, BQ, Q, "}">> }

InitProse ==
    /\ pc = "reply"
    /\ \E lead \in Proses, trail \in Proses, f \in Fences, obj \in EmbeddedObjects :
          /\ json_loads(obj).ok /\ json_loads(obj).v.t = "obj"
          /\ embed = [lead |-> lead, open |-> f.open, obj |-> obj,
                      close |-> f.close, trail |-> trail]
          /\ response_text = lead \o f.open \o obj \o f.close \o trail
    /\ Idle

SpecProse == InitProse /\ [][NextClean]_vars

\* the cleaned text is the embedded object and parses to the object's value
ExtractsEmbedded ==
    /\ json_text = embed.obj
    /\ parsed.ok
    /\ parsed.v = json_loads(embed.obj).v

\* C3 as stated: whatever the leading and trailing prose, the embedded
\* object is what clean_json_response returns, and it parses to its value
C3_ProseTolerance ==
    pc = "cleaned" => ExtractsEmbedded

\* C3 (amended): when the leading prose holds no '{', the trailing prose
\* holds no '}' and the object holds no run of three backquotes, the
\* embedded object is what clean_json_response returns, and it parses to
\* the object's value, with no fence, a tagged fence or an untagged fence
\* around the object.
C3_ProseToleranceWithinHeuristic ==
    ( /\ pc = "cleaned"
      /\ IndicesOf(embed.lead, "{") = {}
      /\ IndicesOf(embed.trail, "}") = {}
      /\ ~HasTicks(embed.obj) ) => ExtractsEmbedded

\* C3 witness: a nested object inside an untagged fence, prose on both
\* sides (a '}' before it, a '{' after it) within the amended bounds,
\* extracted and parsed
C3_Witness ==
    /\ pc = "cleaned"
    /\ IndicesOf(embed.lead, "{") = {}
    /\ IndicesOf(embed.trail, "}") = {}
    /\ ~HasTicks(embed.obj)
    /\ IndicesOf(embed.lead, "}") # {}
    /\ IndicesOf(embed.trail, "{") # {}
    /\ embed.open = Ticks \o <<"\n">>
    /\ Len(embed.obj) > 7
    /\ json_text # response_text
    /\ ExtractsEmbedded

-----------------------------------------------------------------------------
(* Python values as display_grids and format_grid use them.                *)

RECURSIVE NatChars(_)
\* the decimal numeral of a natural number
NatChars(n) ==
    IF n < 10 THEN <<DigitChars[n + 1]>>
    ELSE NatChars(n \div 10) \o <<DigitChars[(n % 10) + 1]>>

IntChars(n) == IF n < 0 THEN <<"-">> \o NatChars(0 - n) ELSE NatChars(n)

RECURSIVE JoinWith(_, _)
\* sep.join(ts)
JoinWith(ts, sep) ==
    IF ts = <<>> THEN <<>>
    ELSE IF Len(ts) = 1 THEN ts[1]
    ELSE ts[1] \o sep \o JoinWith(Tail(ts), sep)

RECURSIVE PyRepr(_)
\* repr(v); a float shows its numeral, a string is quoted with apostrophes
PyRepr(v) ==
    IF v.t = "int" THEN IntChars(v.n)
    ELSE IF v.t = "float" THEN v.s
    ELSE IF v.t = "str" THEN <<"'">> \o v.s \o <<"'">>
    ELSE IF v.t = "bool" THEN (IF v.b THEN <<"T", "r", "u", "e">> ELSE <<"F", "a", "l", "s", "e">>)
    ELSE IF v.t = "null" THEN <<"N", "o", "n", "e">>
    ELSE IF v.t = "arr"
         THEN <<"[">> \o JoinWith([m \in 1..Len(v.a) |-> PyRepr(v.a[m])], <<",", " ">>) \o <<"]">>
    ELSE <<"{">> \o JoinWith([m \in 1..Len(v.o) |->
                        <<"'">> \o v.o[m].k \o <<"'", ":", " ">> \o PyRepr(v.o[m].v)],
                    <<",", " ">>) \o <<"}">>

\* str(v), what an f-string field shows
PyStr(v) == IF v.t = "str" THEN v.s ELSE PyRepr(v)

\* v != 0
NotZero(v) ==
    ~ \/ v.t = "int" /\ v.n = 0
      \/ v.t = "bool" /\ ~v.b
      \/ v.t = "float" /\ \A m \in 1..Len(v.s) : v.s[m] \in {"-", "0", "."}

\* bool(v)
Truthy(v) ==
    IF v.t = "null" THEN FALSE
    ELSE IF v.t = "str" THEN v.s # <<>>
    ELSE IF v.t = "arr" THEN v.a # <<>>
    ELSE IF v.t = "obj" THEN v.o # <<>>
    ELSE NotZero(v)

\* iter(v): the items a for loop visits, or TypeError
PyIter(v) ==
    IF v.t = "arr" THEN [ok |-> TRUE, items |-> v.a]
    ELSE IF v.t = "str" THEN [ok |-> TRUE, items |-> [m \in 1..Len(v.s) |-> JStr(<<v.s[m]>>)]]
    ELSE IF v.t = "obj" THEN [ok |-> TRUE, items |-> [m \in 1..Len(v.o) |-> JStr(v.o[m].k)]]
    ELSE [ok |-> FALSE, items |-> <<>>]

\* v[key] for a string key: the value, KeyError, or TypeError
Subscript(v, key) ==
    IF v.t # "obj" THEN [exc |-> "TypeError", v |-> None]
    ELSE IF \E m \in 1..Len(v.o) : v.o[m].k = key
         THEN [exc |-> "none", v |-> v.o[CHOOSE m \in 1..Len(v.o) : v.o[m].k = key].v]
    ELSE [exc |-> "KeyError", v |-> None]

\* xs[a:b] with 0-based a <= b
Slice(xs, a, b) == SubSeq(xs, a + 1, IF b < Len(xs) THEN b ELSE Len(xs))

\* c * n
Repeat(c, n) == [m \in 1..n |-> c]

-----------------------------------------------------------------------------
(* format_grid (app.py:98-110).                                            *)

\* app.py:103  f" {n if n != 0 else '_'} "
FormatNumber(n) == <<" ">> \o (IF NotZero(n) THEN PyStr(n) ELSE <<"_">>) \o <<" ">>

\* app.py:105
RowStr(formatted_numbers) ==
    <<"|">>
    \o JoinWith([b \in 1..3 |-> Concat(Slice(formatted_numbers, 3 * (b - 1), 3 * (b - 1) + 3))],
                <<"|">>)
    \o <<"|">>

NeedsSeparatorAfterEveryThird(i) == i % 3 = 2

\* app.py:108, i the 0-based row index
NeedsSeparator(i) == i % 3 = 2 /\ i < 8

RECURSIVE FormatRows(_, _, _)
\* app.py:101-109, the loop from 0-based row index i on
FormatRows(rows, i, acc) ==
    IF i >= Len(rows) THEN [exc |-> "none", rows |-> acc]
    ELSE LET it == PyIter(rows[i + 1])
             row_str == RowStr([c \in 1..Len(it.items) |-> FormatNumber(it.items[c])])
             acc1 == Append(acc, row_str)
         IN  IF ~it.ok THEN [exc |-> "TypeError", rows |-> acc]
             ELSE FormatRows(rows, i + 1,
                             IF NeedsSeparator(i)
                             THEN Append(acc1, Repeat("-", Len(acc1[1])))
                             ELSE acc1)

\* app.py:98-110
format_grid(g) ==
    IF PyIter(g).ok THEN FormatRows(PyIter(g).items, 0, <<>>)
    ELSE [exc |-> "TypeError", rows |-> <<>>]

\* a grid of integers as the JSON value json.loads gives for it
JGrid(g) == JArr([r \in 1..Len(g) |-> JArr([c \in 1..Len(g[r]) |-> JInt(g[r][c])])])

\* Scenario A's puzzle
Givens ==
    << <<5, 3, 0, 0, 7, 0, 0, 0, 0>>,
       <<6, 0, 0, 1, 9, 5, 0, 0, 0>>,
       <<0, 9, 8, 0, 0, 0, 0, 6, 0>>,
       <<8, 0, 0, 0, 6, 0, 0, 0, 3>>,
       <<4, 0, 0, 8, 0, 3, 0, 0, 1>>,
       <<7, 0, 0, 0, 2, 0, 0, 0, 6>>,
       <<0, 6, 0, 0, 0, 0, 2, 8, 0>>,
       <<0, 0, 0, 4, 1, 9, 0, 0, 5>>,
       <<0, 0, 0, 0, 8, 0, 0, 7, 9>> >>

\* and its solution
Solution ==
    << <<5, 3, 4, 6, 7, 8, 9, 1, 2>>,
       <<6, 7, 2, 1, 9, 5, 3, 4, 8>>,
       <<1, 9, 8, 3, 4, 2, 5, 6, 7>>,
       <<8, 5, 9, 7, 6, 1, 4, 2, 3>>,
       <<4, 2, 6, 8, 5, 3, 7, 9, 1>>,
       <<7, 1, 3, 9, 2, 4, 8, 5, 6>>,
       <<9, 6, 1, 5, 3, 7, 2, 8, 4>>,
       <<2, 8, 7, 4, 1, 9, 6, 3, 5>>,
       <<3, 4, 5, 2, 8, 6, 1, 7, 9>> >>

\* 9x9 grids with cells in 0..9: the scenario's two grids and the grids
\* whose cell (r, c) is (a*r + b*c + d) mod 10
PuzzleGrids ==
    {Givens, Solution} \cup
    { [r \in 1..9 |-> [c \in 1..9 |-> (a * r + b * c + d) % 10]] :
        a \in 0..MaxCoef, b \in 0..MaxCoef, d \in 0..MaxCoef }

InitFormat ==
    /\ pc = "grid"
    /\ grid \in {JGrid(g) : g \in PuzzleGrids}
    /\ response_text = <<>>
    /\ embed = NoEmbed
    /\ json_text = <<>>
    /\ parsed = NoParse
    /\ outcome = "none"
    /\ result = None
    /\ ui = <<>>
    /\ raised = "none"
    /\ requests = 0
    /\ formatted_rows = <<>>

\* app.py:114 / app.py:118: one call of format_grid
FormatGrid ==
    /\ pc = "grid"
    /\ pc' = "formatted"
    /\ formatted_rows' = format_grid(grid).rows
    /\ raised' = format_grid(grid).exc
    /\ UNCHANGED <<response_text, json_text, parsed, embed, outcome, result, ui,
                   requests, grid>>

NextFormat == FormatGrid

SpecFormat == InitFormat /\ [][NextFormat]_vars

\* the line of formatted_rows that shows grid row r (1-based): one
\* separator line precedes it for every three rows above it
LineOfRow(r) == r + ((r - 1) \div 3)

\* the column at which cell c (1-based) of a row line starts
ColumnOfCell(c) == 1 + 3 * (c - 1) + ((c - 1) \div 3) + 1

\* C7: for a 9x9 grid with cells in 0..9 format_grid raises nothing and
\* returns 11 lines of one length: lines 4 and 8 are separator lines, the
\* other nine are the rows in order, each with '|' at both ends and after
\* every three cells, each cell a blank, '_' for 0 or the digit, a blank.
C7_FormatGrid ==
    pc = "formatted" =>
        /\ raised = "none"
        /\ Len(formatted_rows) = 11
        /\ \A l \in 1..11 : Len(formatted_rows[l]) = Len(formatted_rows[1])
        /\ \A l \in {4, 8} : \A p \in 1..Len(formatted_rows[l]) : formatted_rows[l][p] = "-"
        /\ \A r \in 1..9 :
              LET line == formatted_rows[LineOfRow(r)]
              IN  /\ Len(line) = 31
                  /\ \A p \in 1..31 : (line[p] = "|") <=> (p \in {1, 11, 21, 31})
                  /\ \A c \in 1..9 :
                        LET n == grid.a[r].a[c].n
                            p == ColumnOfCell(c)
                        IN  /\ line[p] = " "
                            /\ line[p + 1] = (IF n = 0 THEN "_" ELSE DigitChars[n + 1])
                            /\ line[p + 2] = " "

\* C7 witness: a formatted grid whose last row holds both an empty cell and
\* a 9
C7_Witness ==
    /\ pc = "formatted"
    /\ Len(formatted_rows) = 11
    /\ \E c \in 1..9 : grid.a[9].a[c].n = 0
    /\ \E c \in 1..9 : grid.a[9].a[c].n = 9

-----------------------------------------------------------------------------
(* The solve handler: main (app.py:139-144), detect_and_solve_sudoku       *)
(* (app.py:35-89) and display_grids (app.py:91-118).                       *)

\* the Streamlit elements a run emits
ErrorEv(msg) == [kind |-> "error", body |-> <<msg>>]
TextEv(cs) == [kind |-> "text", body |-> cs]
SubheaderEv(msg) == [kind |-> "subheader", body |-> <<msg>>]
SuccessEv == [kind |-> "success", body |-> <<"Puzzle solved!">>]

KeyInitial ==
    <<"i", "n", "i", "t", "i", "a", "l", "_", "g", "r", "i", "d">>

KeySolved ==
    <<"s", "o", "l", "v", "e", "d", "_", "g", "r", "i", "d">>

ReplyOutcomeShowingCleaned(text) ==
    LET jt == clean_json_response(text)
        p == json_loads(jt)
    IN  IF p.ok
        THEN [json_text |-> jt, parsed |-> [ok |-> TRUE, v |-> p.v], result |-> p.v, ui |-> <<>>]
        ELSE [json_text |-> jt, parsed |-> NoParse, result |-> None,
              ui |-> <<ErrorEv("Failed to parse JSON response"),
                       TextEv(<<"Raw response:">>), TextEv(jt)>>]

\* app.py:73-85: a reply text arrived
ReplyOutcome(text) ==
    LET jt == clean_json_response(text)
        p == json_loads(jt)
    IN  IF p.ok
        THEN [json_text |-> jt, parsed |-> [ok |-> TRUE, v |-> p.v], result |-> p.v, ui |-> <<>>]
        ELSE [json_text |-> jt, parsed |-> NoParse, result |-> None,
              ui |-> <<ErrorEv("Failed to parse JSON response"),
                       TextEv(<<"Raw response:">>), TextEv(text)>>]

\* app.py:87-89: an exception was raised inside the try block
FailureOutcome ==
    [json_text |-> <<>>, parsed |-> NoParse, result |-> None,
     ui |-> <<ErrorEv("Error processing image")>>]

DetectRetryingOnFailure(out) ==
    LET r == IF out.kind = "text" THEN ReplyOutcome(out.text) ELSE FailureOutcome
    IN  [requests |-> IF r.result = None THEN 2 ELSE 1, r |-> r]

\* app.py:35-89.  out is what the one call of client.chat.completions.create
\* (app.py:46) did: it raised (kind "error": transport, authentication or
\* service failure), it returned no choice (kind "no_choices": IndexError at
\* app.py:74), a choice without content (kind "no_content": TypeError at
\* app.py:29), or a reply text (kind "text").
detect_and_solve_sudoku(out) ==
    [requests |-> 1,
     r |-> IF out.kind = "text" THEN ReplyOutcome(out.text) ELSE FailureOutcome]

\* app.py:112-114 and app.py:116-118: one column.  The subheader is emitted,
\* then result[key] is read, formatted and shown.
ShowColumn(res, title, key) ==
    LET g == Subscript(res, key)
        f == format_grid(g.v)
    IN  IF g.exc # "none" THEN [ui |-> <<SubheaderEv(title)>>, exc |-> g.exc]
        ELSE IF f.exc # "none" THEN [ui |-> <<SubheaderEv(title)>>, exc |-> f.exc]
        ELSE [ui |-> <<SubheaderEv(title), TextEv(JoinWith(f.rows, <<"\n">>))>>,
              exc |-> "none"]

\* app.py:91-118
display_grids(res) ==
    LET c1 == ShowColumn(res, "Original Puzzle", KeyInitial)
        c2 == ShowColumn(res, "Solved Puzzle", KeySolved)
    IN  IF ~Truthy(res) THEN [ui |-> <<>>, exc |-> "none"]
        ELSE IF c1.exc # "none" THEN c1
        ELSE [ui |-> c1.ui \o c2.ui, exc |-> c2.exc]

\* app.py:141-144: what the handler of the Solve Puzzle button does with out
SolveRun(out) ==
    LET d == detect_and_solve_sudoku(out)
        shown == IF Truthy(d.r.result)
                 THEN display_grids(d.r.result)
                 ELSE [ui |-> <<>>, exc |-> "none"]
    IN  [requests |-> d.requests,
         json_text |-> d.r.json_text,
         parsed |-> d.r.parsed,
         result |-> d.r.result,
         ui |-> d.r.ui \o (IF Truthy(d.r.result) THEN <<SuccessEv>> ELSE <<>>) \o shown.ui,
         raised |-> shown.exc]

-----------------------------------------------------------------------------
(* Replies of the remote model.  The prompt (app.py:54-59) asks for a JSON *)
(* object with the keys initial_grid and solved_grid; the reply is free    *)
(* text, and these are the shapes it is drawn from.                        *)

KeySolution ==
    <<"s", "o", "l", "u", "t", "i", "o", "n">>

KeyNote ==
    <<"n", "o", "t", "e">>

LeadProse ==
    <<"S", "u", "r", "e", "!", " ", "H", "e", "r", "e", " ", "i", "s", " ",
      "t", "h", "e", " ", "r", "e", "s", "u", "l", "t", ":", " ">>

TrailProse ==
    <<" ", "H", "o", "p", "e", " ", "t", "h", "a", "t", " ", "h", "e", "l",
      "p", "s", "!">>

Refusal ==
    <<"I", " ", "c", "a", "n", "n", "o", "t", " ", "p", "r", "o", "c", "e",
      "s", "s", " ", "t", "h", "i", "s", " ", "i", "m", "a", "g", "e", ".">>

Truncated ==
    <<"{", Q, "i", "n", "i", "t", "i", "a", "l", "_", "g", "r", "i", "d",
      Q, ":", " ", "[", "[", "5", ",", " ", "3", ",", " ", "0">>

BareArray ==
    <<"[", "[", "5", ",", " ", "3", "]", ",", " ", "[", "6", ",", " ", "0",
      "]", "]">>

FencedArray ==
    <<BQ, BQ, BQ, "j", "s", "o", "n", "\n", "[", "1", ",", " ", "2", "]",
      "\n", BQ, BQ, BQ>>

RECURSIVE json_dumps(_)
\* the JSON text of a value, as the remote model writes it
json_dumps(v) ==
    IF v.t = "int" THEN IntChars(v.n)
    ELSE IF v.t = "float" THEN v.s
    ELSE IF v.t = "str" THEN <<Q>> \o v.s \o <<Q>>
    ELSE IF v.t = "bool" THEN (IF v.b THEN LitTrue ELSE LitFalse)
    ELSE IF v.t = "null" THEN LitNull
    ELSE IF v.t = "arr"
         THEN <<"[">> \o JoinWith([m \in 1..Len(v.a) |-> json_dumps(v.a[m])], <<",">>) \o <<"]">>
    ELSE <<"{">> \o JoinWith([m \in 1..Len(v.o) |->
                        <<Q>> \o v.o[m].k \o <<Q, ":", " ">> \o json_dumps(v.o[m].v)],
                    <<",", " ">>) \o <<"}">>

\* grid g with row r replaced
WithRow(g, r, row) == JArr([i \in 1..Len(g.a) |-> IF i = r THEN row ELSE g.a[i]])

\* grid g with cell (r, c) replaced
WithCell(g, r, c, v) ==
    WithRow(g, r, JArr([j \in 1..Len(g.a[r].a) |-> IF j = c THEN v ELSE g.a[r].a[j]]))

Member(k, v) == [k |-> k, v |-> v]

\* the payloads a reply may carry
Payloads ==
    LET G0 == JGrid(Givens)
        G1 == JGrid(Solution)
    IN  [ valid |-> JObj(<<Member(KeyInitial, G0), Member(KeySolved, G1)>>),
          extra_key |-> JObj(<<Member(KeyInitial, G0), Member(KeySolved, G1),
                               Member(KeyNote, JStr(<<"o", "k">>))>>),
          empty_object |-> JObj(<<>>),
          other_key |-> JObj(<<Member(KeyNote, JInt(1))>>),
          no_solved |-> JObj(<<Member(KeyInitial, G0)>>),
          no_initial |-> JObj(<<Member(KeySolved, G1)>>),
          misnamed |-> JObj(<<Member(KeyInitial, G0), Member(KeySolution, G1)>>),
          eight_rows |-> JObj(<<Member(KeyInitial, JArr(SubSeq(G0.a, 1, 8))),
                                Member(KeySolved, G1)>>),
          long_row |-> JObj(<<Member(KeyInitial, G0),
                              Member(KeySolved, WithRow(G1, 1, JArr(Append(G1.a[1].a, JInt(1)))))>>),
          cell_ten |-> JObj(<<Member(KeyInitial, G0),
                              Member(KeySolved, WithCell(G1, 9, 9, JInt(10)))>>),
          cell_negative |-> JObj(<<Member(KeyInitial, WithCell(G0, 1, 3, JInt(0 - 1))),
                                   Member(KeySolved, G1)>>),
          cell_string |-> JObj(<<Member(KeyInitial, WithCell(G0, 1, 3, JStr(<<"x">>))),
                                 Member(KeySolved, G1)>>),
          cell_fraction |-> JObj(<<Member(KeyInitial, G0),
                                   Member(KeySolved, WithCell(G1, 2, 2, JFloat(<<"1", ".", "5">>)))>>),
          cell_null |-> JObj(<<Member(KeyInitial, WithCell(G0, 1, 3, None)),
                               Member(KeySolved, G1)>>),
          grid_number |-> JObj(<<Member(KeyInitial, JInt(5)), Member(KeySolved, G1)>>),
          row_number |-> JObj(<<Member(KeyInitial, G0),
                                Member(KeySolved, WithRow(G1, 2, JInt(7)))>>) ]

\* the text around a payload: prose or none before it, a tagged fence, an
\* untagged fence or none around it, prose or none after it
Wrappings ==
    [lead : {<<>>, LeadProse}, fence : Fences, trail : {<<>>, TrailProse}]

\* reply texts that carry no payload
PlainReplies == {Refusal, Truncated, BareArray, FencedArray} \cup FreeTexts

ReplyTexts ==
    PlainReplies \cup
    { w.lead \o w.fence.open \o json_dumps(Payloads[name]) \o w.fence.close \o w.trail :
        name \in DOMAIN Payloads, w \in Wrappings }

\* what client.chat.completions.create (app.py:46) can do
RemoteOutcomes ==
    { [kind |-> k, text |-> <<>>] : k \in {"error", "no_choices", "no_content"} }
    \cup { [kind |-> "text", text |-> t] : t \in ReplyTexts }

-----------------------------------------------------------------------------
(* Spec: an image is shown and the Solve Puzzle button is pressed          *)
(* (app.py:137-144); any later interaction reruns the script.              *)

Init ==
    /\ pc = "ready"
    /\ response_text = <<>>
    /\ embed = NoEmbed
    /\ Idle

\* app.py:139-144, the whole handler of one click
SolvePuzzle(out) ==
    /\ pc = "ready"
    /\ \E run \in {SolveRun(out)} :
           /\ pc' = "done"
           /\ outcome' = out.kind
           /\ response_text' = out.text
           /\ requests' = requests + run.requests
           /\ json_text' = run.json_text
           /\ parsed' = run.parsed
           /\ result' = run.result
           /\ ui' = run.ui
           /\ raised' = run.raised
    /\ UNCHANGED <<embed, grid, formatted_rows>>

\* app.py:120-139: the script runs again with the button not pressed; what
\* the last run showed is gone
Rerun ==
    /\ pc = "done"
    /\ pc' = "ready"
    /\ response_text' = <<>>
    /\ json_text' = <<>>
    /\ parsed' = NoParse
    /\ outcome' = "none"
    /\ result' = None
    /\ ui' = <<>>
    /\ raised' = "none"
    /\ requests' = 0
    /\ UNCHANGED <<embed, grid, formatted_rows>>

Next ==
    \/ \E out \in RemoteOutcomes : SolvePuzzle(out)
    \/ Rerun

Spec == Init /\ [][Next]_vars

-----------------------------------------------------------------------------
(* Claims about the solve handler, checked under Spec.                     *)

\* the positions of the error elements of a run's output
ErrorEvents(u) == {i \in 1..Len(u) : u[i].kind = "error"}

\* the kinds of the elements of a run's output, in order
Kinds(u) == [i \in 1..Len(u) |-> u[i].kind]

\* v is a sequence of exactly 9 rows of exactly 9 integers in 0..9
IsPuzzleGrid(v) ==
    /\ v.t = "arr"
    /\ Len(v.a) = 9
    /\ \A r \in 1..9 :
          /\ v.a[r].t = "arr"
          /\ Len(v.a[r].a) = 9
          /\ \A c \in 1..9 : v.a[r].a[c].t = "int" /\ v.a[r].a[c].n \in 0..9

\* v is a keyed record holding a puzzle grid under both keys
IsPuzzleResult(v) ==
    /\ v.t = "obj"
    /\ Subscript(v, KeyInitial).exc = "none"
    /\ Subscript(v, KeySolved).exc = "none"
    /\ IsPuzzleGrid(Subscript(v, KeyInitial).v)
    /\ IsPuzzleGrid(Subscript(v, KeySolved).v)

\* C1: a parsed payload that is not a record of two 9x9 grids of integers in
\* 0..9 is reported as an error and no result is returned.
C1_SchemaEnforced ==
    (pc = "done" /\ parsed.ok /\ ~IsPuzzleResult(parsed.v)) =>
        (result = None /\ ErrorEvents(ui) # {})

\* C2: a reply text without '{' cleans to a text that does not parse; the
\* run shows one error, then the label and the raw reply text, returns no
\* result, shows no grid and raises nothing.
C2_NoBraceIsMalformed ==
    (pc = "done" /\ outcome = "text" /\ IndicesOf(response_text, "{") = {}) =>
        /\ ~json_loads(json_text).ok
        /\ ~parsed.ok
        /\ result = None
        /\ ui = <<ErrorEv("Failed to parse JSON response"),
                  TextEv(<<"Raw response:">>), TextEv(response_text)>>
        /\ raised = "none"

\* C2 witness: a reply without '{' whose cleaned text differs from it was
\* reported with the raw text
C2_Witness ==
    /\ pc = "done"
    /\ outcome = "text"
    /\ IndicesOf(response_text, "{") = {}
    /\ IndicesOf(response_text, "}") # {}
    /\ HasTicks(response_text)
    /\ json_text # response_text
    /\ Len(ui) = 3
    /\ ui[3] = TextEv(response_text)

\* C4: no exception escapes a solve action.
C4_NoExceptionEscapes ==
    pc = "done" => raised = "none"

\* the run showed the success message and both grids, and no error
CompleteResult(u) == Kinds(u) = <<"success", "subheader", "text", "subheader", "text">>

\* the run showed error diagnostics and neither the success message nor
\* any part of a grid display
DiagnosticOnly(u) ==
    /\ ErrorEvents(u) # {}
    /\ \A i \in 1..Len(u) : u[i].kind \notin {"success", "subheader"}

\* C5: a solve action ends with a complete result shown or with nothing but
\* an error diagnostic.
C5_NoPartialSuccess ==
    pc = "done" => (CompleteResult(ui) \/ DiagnosticOnly(ui))

\* C6: a solve action issues one request and no more; when the call fails,
\* the response is empty or the reply does not parse, no result is returned
\* and exactly one error is reported.
C6_SingleRequest ==
    /\ requests <= 1
    /\ pc = "done" => requests = 1
    /\ (pc = "done" /\ (outcome # "text" \/ ~parsed.ok)) =>
          (result = None /\ Cardinality(ErrorEvents(ui)) = 1)

\* C6 witness: the remote call raised and the run ended after one request
C6_Witness ==
    /\ pc = "done"
    /\ outcome = "error"
    /\ requests = 1
    /\ result = None

====
